---------------------------- MODULE Spec2Model ----------------------------
(***************************************************************************)
(* A model of the archive-layout helpers of amazon-s3-tar-tool:            *)
(*   findPadding, createCSVManifest, _buildManifest   (manifest layout)    *)
(*   findMinMaxPartRange                              (multipart sizing)   *)
(*   deleteObjectList, _deleteObjectList              (batched deletion)   *)
(*   listAllObjects                                   (listing filter)     *)
(* Each function is run by its own specification (SpecPadding, SpecLayout, *)
(* SpecParts, SpecDelete, SpecList); the variables of the functions that a *)
(* specification does not run stay at their idle values.                   *)
(***************************************************************************)
EXTENDS Integers, Sequences, FiniteSets, TLC

VARIABLES
    \* findPadding(offset) (n)
    offset, n, pcPad,
    \* _buildManifest(ctx, headers, objectList)
    objectList, headers, estimate, data, iterations, result, pcBuild,
    \* findMinMaxPartRange(objectSize)
    objectSize, nPartsMax, nPartsMin, mid, pcParts,
    \* deleteObjectList(ctx, opts, objectList)
    nObjects, i, calls, response, delErr, pcDelete,
    \* listAllObjects(ctx, client, Bucket, Prefix)
    contents, fetched, firstPage, listing, list, pcList

padVars    == <<offset, n, pcPad>>
layoutVars == <<objectList, headers, estimate, data, iterations, result, pcBuild>>
partsVars  == <<objectSize, nPartsMax, nPartsMin, mid, pcParts>>
deleteVars == <<nObjects, i, calls, response, delErr, pcDelete>>
listVars   == <<contents, fetched, firstPage, listing, list, pcList>>
vars       == <<padVars, layoutVars, partsVars, deleteVars, listVars>>

(***************************************************************************)
(* Bounds of the model.                                                    *)
(***************************************************************************)
MaxOffset  == 1100    \* findPadding is applied to the offsets 0..MaxOffset
MaxEntries == 3       \* entries of an object list handed to _buildManifest
MaxKeys    == 2500    \* keys of a list handed to deleteObjectList
MaxListing == 3       \* keys the store lists under the prefix

(***************************************************************************)
(* Program constants.                                                      *)
(***************************************************************************)
blockSize  == 512
KB         == 1024
partsLimit == 10000
batch      == 1000

----------------------------------------------------------------------------
(***************************************************************************)
(* findPadding: -offset & (blockSize - 1) on int64.                        *)
(***************************************************************************)

\* The low 30 bits of the two's complement representation of x.  The mask
\* blockSize - 1 reads the low 9 bits only, so the high bits of the 64-bit
\* word do not matter.
TwosComplement(x) == x % (2^30)

RECURSIVE BitAnd(_, _)
BitAnd(a, b) ==
    IF a = 0 \/ b = 0 THEN 0
    ELSE (a % 2) * (b % 2) + 2 * BitAnd(a \div 2, b \div 2)

\* Mutant: the pad is taken as blockSize minus the remainder, which gives a
\* full block where none is needed.
findPaddingFullBlock(off) == blockSize - (off % blockSize)

findPadding(off) == BitAnd(TwosComplement(-off), blockSize - 1)

\* Offsets beyond the first blocks: an entry size of the layout examples,
\* a power of two, and one below a power of two.
LargeOffsets == { 600000, 1048576, 1073741823 }

PadInit ==
    /\ offset \in (0..MaxOffset) \cup LargeOffsets
    /\ n = 0
    /\ pcPad = "call"

PadIdle ==
    /\ offset = 0
    /\ n = 0
    /\ pcPad = "idle"

FindPadding ==
    /\ pcPad = "call"
    /\ n' = findPadding(offset)
    /\ pcPad' = "returned"
    /\ UNCHANGED <<offset, layoutVars, partsVars, deleteVars, listVars>>

----------------------------------------------------------------------------
(***************************************************************************)
(* The manifest: createCSVManifest and _buildManifest.                     *)
(*                                                                         *)
(* A string is modelled by its byte length and the number of double quotes *)
(* in it (no commas, line breaks or leading blanks are drawn): that is all *)
(* the CSV writer's output length depends on.  An object is its Key, Size  *)
(* and ETag.                                                               *)
(***************************************************************************)

Keys  == { [len |-> 13, quotes |-> 0], [len |-> 400, quotes |-> 0] }
ETags == { [len |-> 34, quotes |-> 2] }   \* an MD5 in hex between quotes
Sizes == { 0, 100, 8000, 600000 }

S3Obj == [Key : Keys, Size : Sizes, ETag : ETags]

ObjectLists == UNION { [1..k -> S3Obj] : k \in 1..MaxEntries }

\* The headers handed to _buildManifest, one per entry; only their Size is
\* read.  A tar header is one block, or three for a name that needs a GNU
\* long-name record.
HeaderSizes == { 512, 1536 }

HeaderLists(objs) == [1..Len(objs) -> [Size : HeaderSizes]]

\* fmt.Sprintf("%d", v) for v >= 0: the decimal digits, most significant first.
RECURSIVE Sprintf_d(_)
Sprintf_d(v) ==
    IF v < 10 THEN <<v>> ELSE Sprintf_d(v \div 10) \o <<v % 10>>

\* The reader's side of the manifest: the number a digit string denotes.
RECURSIVE ParseInt(_)
ParseInt(ds) ==
    IF Len(ds) = 0 THEN 0
    ELSE 10 * ParseInt(SubSeq(ds, 1, Len(ds) - 1)) + ds[Len(ds)]

\* encoding/csv: a field with a quote in it is written between quotes with
\* each of its quotes doubled; any other field is written as it is.
CsvFieldLen(s) == IF s.quotes > 0 THEN s.len + s.quotes + 2 ELSE s.len

\* One record of the manifest: the fields, a comma between two fields and
\* the line feed that ends it.
CsvLineLen(line) ==
    CsvFieldLen(line.name) + 1 + Len(line.absoluteOffset) + 1
        + Len(line.size) + 1 + CsvFieldLen(line.checksum) + 1

\* data.Len()
RECURSIVE BufLen(_)
BufLen(manifest) ==
    IF Len(manifest) = 0 THEN 0
    ELSE CsvLineLen(manifest[1]) + BufLen(Tail(manifest))

\* Mutant: the offset is recorded before the entry's header is skipped.
RECURSIVE manifestLinesAtHeader(_, _, _, _)
manifestLinesAtHeader(currLocation, hdrs, objs, k) ==
    IF k > Len(objs) THEN <<>>
    ELSE << [name           |-> objs[k].Key,
             absoluteOffset |-> Sprintf_d(currLocation),
             size           |-> Sprintf_d(objs[k].Size),
             checksum       |-> objs[k].ETag] >>
         \o manifestLinesAtHeader(currLocation + hdrs[k].Size + objs[k].Size,
                                  hdrs, objs, k + 1)

\* The loop of createCSVManifest, from entry k on.
RECURSIVE manifestLines(_, _, _, _)
manifestLines(currLocation, hdrs, objs, k) ==
    IF k > Len(objs) THEN <<>>
    ELSE LET loc == currLocation + hdrs[k].Size
         IN  << [name           |-> objs[k].Key,
                 absoluteOffset |-> Sprintf_d(loc),
                 size           |-> Sprintf_d(objs[k].Size),
                 checksum       |-> objs[k].ETag] >>
             \o manifestLines(loc + objs[k].Size, hdrs, objs, k + 1)

\* currLocation before the loop of createCSVManifest.
startLocation(off) ==
    LET currLocation == off + 512
    IN  currLocation + findPadding(currLocation)

createCSVManifest(off, hdrs, objs) ==
    manifestLines(startLocation(off), hdrs, objs, 1)

LayoutInit ==
    /\ objectList \in ObjectLists
    /\ headers \in HeaderLists(objectList)
    /\ estimate = 0
    /\ data = <<>>
    /\ iterations = 0
    /\ result = "none"
    /\ pcBuild = "seed"

LayoutIdle ==
    /\ objectList = <<>>
    /\ headers = <<>>
    /\ estimate = 0
    /\ data = <<>>
    /\ iterations = 0
    /\ result = "none"
    /\ pcBuild = "idle"

\* var currLocation int64 = 0; data := createCSVManifest(currLocation, ...);
\* estimate := int64(data.Len())
BuildSeed ==
    /\ pcBuild = "seed"
    /\ data' = createCSVManifest(0, headers, objectList)
    /\ estimate' = BufLen(data')
    /\ pcBuild' = "loop"
    /\ UNCHANGED <<objectList, headers, iterations, result>>
    /\ UNCHANGED <<padVars, partsVars, deleteVars, listVars>>

\* One pass of the for loop of _buildManifest; on break, return data.
BuildIterate ==
    /\ pcBuild = "loop"
    /\ data' = createCSVManifest(estimate, headers, objectList)
    /\ iterations' = iterations + 1
    /\ LET l  == BufLen(data')
           lp == l + findPadding(l)
       IN  IF lp >= estimate
           THEN /\ pcBuild' = "returned"
                /\ result' = "manifest"
                /\ UNCHANGED estimate
           ELSE /\ estimate' = lp
                /\ UNCHANGED <<pcBuild, result>>
    /\ UNCHANGED <<objectList, headers>>
    /\ UNCHANGED <<padVars, partsVars, deleteVars, listVars>>

----------------------------------------------------------------------------
(***************************************************************************)
(* findMinMaxPartRange.                                                    *)
(*                                                                         *)
(* objectSize and the part sizes are int64 values beyond the range of the  *)
(* model checker's integers, so an int64 is held as a sign and a magnitude *)
(* of seven base-KB limbs, most significant first; the part counts stay    *)
(* plain integers.                                                         *)
(***************************************************************************)

\* t TiB + g GiB + m MiB + k KiB + b bytes, each count below KB.
Size(t, g, m, k, b) == [neg |-> FALSE, mag |-> <<0, 0, t, g, m, k, b>>]

Minus(x) == [neg |-> TRUE, mag |-> x.mag]

IsZero(x) == \A p \in 1..Len(x.mag) : x.mag[p] = 0

IsNegative(x) == x.neg /\ ~IsZero(x)

IsPositive(x) == ~x.neg /\ ~IsZero(x)

\* x * KB
TimesKB(x) == [neg |-> x.neg, mag |-> Tail(x.mag) \o <<0>>]

\* Whether magnitude a is below magnitude b, from limb p on.
RECURSIVE MagLess(_, _, _)
MagLess(a, b, p) ==
    IF p > Len(a) THEN FALSE
    ELSE IF a[p] # b[p] THEN a[p] < b[p]
    ELSE MagLess(a, b, p + 1)

\* x < y on int64.
Less(x, y) ==
    CASE IsNegative(x) /\ IsNegative(y) -> MagLess(y.mag, x.mag, 1)
      [] IsNegative(x) /\ ~IsNegative(y) -> TRUE
      [] ~IsNegative(x) /\ IsNegative(y) -> FALSE
      [] OTHER -> MagLess(x.mag, y.mag, 1)

\* The quotient's limbs from limb p on, with the remainder carried in.
RECURSIVE MagDiv(_, _, _, _)
MagDiv(a, d, p, rem) ==
    IF p > Len(a) THEN <<>>
    ELSE LET cur == rem * KB + a[p]
         IN  <<cur \div d>> \o MagDiv(a, d, p + 1, cur % d)

\* x / d on int64 for d > 0: the quotient is truncated toward zero.
Quotient(x, d) == [neg |-> x.neg, mag |-> MagDiv(x.mag, d, 1, 0)]

partSizeMin == TimesKB(TimesKB(Size(0, 0, 0, 0, 5)))
partSizeMax == TimesKB(TimesKB(TimesKB(Size(0, 0, 0, 0, 5))))

ObjectSizes ==
    { Minus(Size(0, 1, 0, 0, 0)),     \* -1 GiB
      Minus(Size(0, 0, 0, 0, 1)),     \* -1
      Size(0, 0, 0, 0, 0),            \* 0
      Size(0, 0, 0, 0, 1),            \* 1
      Size(0, 0, 4, 1023, 1023),      \* 5 MiB - 1
      Size(0, 0, 5, 0, 0),            \* 5 MiB
      Size(0, 0, 100, 0, 0),          \* 100 MiB
      Size(0, 5, 0, 0, 0),            \* 5 GiB
      Size(0, 5, 0, 0, 1),            \* 5 GiB + 1
      Size(0, 48, 848, 0, 0),         \* 10000 * 5 MiB
      Size(5, 0, 0, 0, 0),            \* 5 TiB
      Size(48, 853, 0, 9, 785) }      \* 10001 * (5 GiB + 1)

\* curSize := objectSize; nPartsMax := partsLimit
PartsInit ==
    /\ objectSize \in ObjectSizes
    /\ nPartsMax = partsLimit
    /\ nPartsMin = 0
    /\ mid = 0
    /\ pcParts = "maxLoop"

PartsIdle ==
    /\ objectSize = Size(0, 0, 0, 0, 0)
    /\ nPartsMax = 0
    /\ nPartsMin = 0
    /\ mid = 0
    /\ pcParts = "idle"

\* nPartsMaxSize = curSize / nPartsMax; nPartsMaxSize < partSizeMin
MaxPartsTooSmall(curSize, parts) ==
    Less(Quotient(curSize, parts), partSizeMin)

\* nPartsMinSize = curSize / nPartsMin; nPartsMinSize > partSizeMax
MinPartsTooLarge(curSize, parts) ==
    Less(partSizeMax, Quotient(curSize, parts))

\* One pass of the first loop.  A division by a part count of 0 is Go's
\* run-time panic "integer divide by zero".
MaxPartsStep ==
    /\ pcParts = "maxLoop"
    /\ IF nPartsMax = 0
       THEN /\ pcParts' = "panic"
            /\ UNCHANGED <<nPartsMax, nPartsMin>>
       ELSE IF MaxPartsTooSmall(objectSize, nPartsMax)
       THEN /\ nPartsMax' = nPartsMax - 1
            /\ UNCHANGED <<pcParts, nPartsMin>>
       ELSE /\ nPartsMin' = 1
            /\ pcParts' = "minLoop"
            /\ UNCHANGED nPartsMax
    /\ UNCHANGED <<objectSize, mid>>
    /\ UNCHANGED <<padVars, layoutVars, deleteVars, listVars>>

\* One pass of the second loop; on break, mid := nPartsMax / 2 and return.
MinPartsStep ==
    /\ pcParts = "minLoop"
    /\ IF MinPartsTooLarge(objectSize, nPartsMin)
       THEN /\ nPartsMin' = nPartsMin + 1
            /\ UNCHANGED <<pcParts, mid>>
       ELSE /\ mid' = nPartsMax \div 2
            /\ pcParts' = "returned"
            /\ UNCHANGED nPartsMin
    /\ UNCHANGED <<objectSize, nPartsMax>>
    /\ UNCHANGED <<padVars, layoutVars, deleteVars, listVars>>

----------------------------------------------------------------------------
(***************************************************************************)
(* deleteObjectList and _deleteObjectList.                                 *)
(*                                                                         *)
(* The object list is modelled by its length nObjects, a key by its index  *)
(* in the list (from 0, as in the code), and a batch objectList[start:end] *)
(* by its two slice bounds.                                                *)
(***************************************************************************)

NoError == [kind |-> "none", keys |-> {}]

\* What the store may answer to one DeleteObjects call: success, an error of
\* the call itself, or a response whose Errors name keys of the batch.
StoreAnswers(call) ==
    { [kind |-> "ok", keys |-> {}], [kind |-> "err", keys |-> {}] }
        \cup { [kind |-> "errors", keys |-> {k}] :
                   k \in {call.start, call.end - 1} }

\* Mutant: the last batch is not clamped to the end of the list.
BatchEndUnclamped(start, len) == start + batch

\* end := i + batch; if end >= len(objectList) { end = len(objectList) }
BatchEnd(start, len) ==
    IF start + batch >= len THEN len ELSE start + batch

DeleteInit ==
    /\ nObjects \in 0..MaxKeys
    /\ i = 0
    /\ calls = <<>>
    /\ response = NoError
    /\ delErr = NoError
    /\ pcDelete = "loop"

DeleteIdle ==
    /\ nObjects = 0
    /\ i = 0
    /\ calls = <<>>
    /\ response = NoError
    /\ delErr = NoError
    /\ pcDelete = "idle"

\* One pass of the loop of deleteObjectList: the batch is cut and handed to
\* _deleteObjectList, which sends it to the store.  An error of the call is
\* returned; a response that reports Errors ends in log.Fatal, which exits
\* the process.
DeleteBatch ==
    /\ pcDelete = "loop"
    /\ i < nObjects
    /\ LET part == [start |-> i, end |-> BatchEnd(i, nObjects)]
       IN  /\ calls' = Append(calls, part)
           /\ \E answer \in StoreAnswers(part) :
                  /\ response' = answer
                  /\ CASE answer.kind = "err" ->
                              /\ delErr' = [kind |-> "err", keys |-> {}]
                              /\ pcDelete' = "returned"
                              /\ UNCHANGED i
                       [] answer.kind = "errors" ->
                              /\ pcDelete' = "fatal"
                              /\ UNCHANGED <<i, delErr>>
                       [] OTHER ->
                              /\ i' = i + batch
                              /\ UNCHANGED <<delErr, pcDelete>>
    /\ UNCHANGED nObjects
    /\ UNCHANGED <<padVars, layoutVars, partsVars, listVars>>

\* The loop is over: return nil.
DeleteReturn ==
    /\ pcDelete = "loop"
    /\ i >= nObjects
    /\ delErr' = [kind |-> "nil", keys |-> {}]
    /\ pcDelete' = "returned"
    /\ UNCHANGED <<nObjects, i, calls, response>>
    /\ UNCHANGED <<padVars, layoutVars, partsVars, listVars>>

----------------------------------------------------------------------------
(***************************************************************************)
(* listAllObjects.  A key is the sequence of its characters.               *)
(***************************************************************************)

KeyNames ==
    { <<"a">>, <<"b", "/">>, <<"/">>, <<"c", "/", "d">>, <<"/", "e">> }

\* What the store holds under the prefix: distinct keys, in listing order.
Listings ==
    { c \in UNION { [1..k -> KeyNames] : k \in 0..MaxListing } :
          \A p, q \in 1..Len(c) : p # q => c[p] # c[q] }

\* Mutant: the separator is looked for at the front of the key.
IsPathByFirstChar(name) == name[1] = "/"

\* string(name[len(name)-1]) == "/"
IsPath(name) == name[Len(name)] = "/"

\* The filter loop from element idx on; cleanList holds the ctr elements
\* kept so far.
RECURSIVE filterPaths(_, _, _)
filterPaths(objs, idx, cleanList) ==
    IF idx > Len(objs) THEN cleanList
    ELSE IF IsPath(objs[idx]) THEN filterPaths(objs, idx + 1, cleanList)
    ELSE filterPaths(objs, idx + 1, Append(cleanList, objs[idx]))

\* The list built from cleanList: PartNum is i + 1 for the index i from 0.
numbered(cleanList) ==
    [k \in 1..Len(cleanList) |-> [Key |-> cleanList[k], PartNum |-> k]]

\* p.HasMorePages(): the first page is always asked for.
HasMorePages == firstPage \/ fetched < Len(contents)

ListInit ==
    /\ contents \in Listings
    /\ fetched = 0
    /\ firstPage = TRUE
    /\ listing = <<>>
    /\ list = <<>>
    /\ pcList = "paging"

ListIdle ==
    /\ contents = <<>>
    /\ fetched = 0
    /\ firstPage = FALSE
    /\ listing = <<>>
    /\ list = <<>>
    /\ pcList = "idle"

\* p.NextPage succeeds: the store returns the next keys (as many as it
\* likes, at least one when any is left), appended to objectList.
NextPage ==
    /\ pcList = "paging"
    /\ HasMorePages
    /\ \E count \in 0..(Len(contents) - fetched) :
           /\ count = 0 => fetched = Len(contents)
           /\ listing' = listing \o SubSeq(contents, fetched + 1, fetched + count)
           /\ fetched' = fetched + count
    /\ firstPage' = FALSE
    /\ UNCHANGED <<contents, list, pcList>>
    /\ UNCHANGED <<padVars, layoutVars, partsVars, deleteVars>>

\* p.NextPage fails: the error is logged, the loop is left, and the keys
\* fetched so far are filtered, numbered and returned.
NextPageError ==
    /\ pcList = "paging"
    /\ HasMorePages
    /\ list' = numbered(filterPaths(listing, 1, <<>>))
    /\ pcList' = "returned"
    /\ UNCHANGED <<contents, fetched, firstPage, listing>>
    /\ UNCHANGED <<padVars, layoutVars, partsVars, deleteVars>>

\* No page is left: the keys are filtered, numbered and returned.
ListReturn ==
    /\ pcList = "paging"
    /\ ~HasMorePages
    /\ list' = numbered(filterPaths(listing, 1, <<>>))
    /\ pcList' = "returned"
    /\ UNCHANGED <<contents, fetched, firstPage, listing>>
    /\ UNCHANGED <<padVars, layoutVars, partsVars, deleteVars>>

----------------------------------------------------------------------------
InitPadding == PadInit /\ LayoutIdle /\ PartsIdle /\ DeleteIdle /\ ListIdle
InitLayout  == PadIdle /\ LayoutInit /\ PartsIdle /\ DeleteIdle /\ ListIdle
InitParts   == PadIdle /\ LayoutIdle /\ PartsInit /\ DeleteIdle /\ ListIdle
InitDelete  == PadIdle /\ LayoutIdle /\ PartsIdle /\ DeleteInit /\ ListIdle
InitList    == PadIdle /\ LayoutIdle /\ PartsIdle /\ DeleteIdle /\ ListInit

NextPadding == FindPadding
NextLayout  == BuildSeed \/ BuildIterate
NextParts   == MaxPartsStep \/ MinPartsStep
NextDelete  == DeleteBatch \/ DeleteReturn
NextList    == NextPage \/ NextPageError \/ ListReturn

SpecPadding == InitPadding /\ [][NextPadding]_vars
SpecLayout  == InitLayout /\ [][NextLayout]_vars
SpecParts   == InitParts /\ [][NextParts]_vars
SpecDelete  == InitDelete /\ [][NextDelete]_vars
SpecList    == InitList /\ [][NextList]_vars

----------------------------------------------------------------------------
(***************************************************************************)
(* Properties of the manifest layout.                                      *)
(***************************************************************************)

\* The offsets a reader parses out of a manifest, one per entry.
Offsets(manifest) ==
    [k \in 1..Len(manifest) |-> ParseInt(manifest[k].absoluteOffset)]

\* lp of _buildManifest: the manifest's length padded to the block boundary.
PaddedLen(manifest) ==
    LET l == BufLen(manifest) IN l + findPadding(l)

\* The bytes of the members that precede entry k: header and data of each.
RECURSIVE MembersBefore(_)
MembersBefore(k) ==
    IF k <= 1 THEN 0
    ELSE MembersBefore(k - 1) + headers[k - 1].Size + objectList[k - 1].Size

\* The running location at which the layout of the returned manifest puts
\* the first byte of entry k's header.
HeaderStart(k) == startLocation(estimate) + MembersBefore(k)

\* C1 (as claimed): the returned manifest is a fixed point of the layout:
\* createCSVManifest seeded with the returned manifest's padded length lp
\* gives every entry the absoluteOffset the returned manifest records.
C1_Idempotent ==
    pcBuild = "returned" =>
        Offsets(createCSVManifest(PaddedLen(data), headers, objectList))
            = Offsets(data)

HeaderPos(k) == Offsets(data)[k] - headers[k].Size

\* C3 (as claimed): the first header starts at the end of the manifest member
\* (512-byte header, body of length l, pad to the block boundary), each next
\* header starts 512 + size + padding(size) after the one before it, and every
\* header position is a multiple of 512.
C3_ContiguousAligned ==
    pcBuild = "returned" =>
        /\ HeaderPos(1) = 512 + BufLen(data) + findPadding(BufLen(data))
        /\ \A k \in 1..(Len(objectList) - 1) :
               HeaderPos(k + 1) = HeaderPos(k) + 512 + objectList[k].Size
                                      + findPadding(objectList[k].Size)
        /\ \A k \in 1..Len(objectList) : HeaderPos(k) % 512 = 0

\* C10 (as claimed): the loop stops within 64 iterations, and a computation
\* whose layout has not stabilised ends in a ConvergenceError, never in a
\* returned manifest.
C10_BoundedOrConvergenceError ==
    /\ iterations <= 64
    /\ pcBuild = "returned" =>
           \/ result = "ConvergenceError"
           \/ /\ result = "manifest"
              /\ data = createCSVManifest(PaddedLen(data), headers, objectList)

----------------------------------------------------------------------------
(***************************************************************************)
(* Properties of findMinMaxPartRange.                                      *)
(***************************************************************************)

\* C4 (as claimed): for a positive objectSize no loop reaches a part count of
\* 0, no division by zero happens, and the result has
\* 1 <= minParts <= maxParts <= 10000.
C4_PartRangeWithinLimits ==
    IsPositive(objectSize) =>
        /\ pcParts # "panic"
        /\ nPartsMax >= 1
        /\ pcParts = "returned" =>
               /\ 1 <= nPartsMin
               /\ nPartsMin <= nPartsMax
               /\ nPartsMax <= 10000

\* C5 (as claimed): a negative objectSize is rejected at once with a usage
\* error: no pass of the search loops runs, nothing is returned as a part
\* plan and nothing crashes.
C5_NegativeRejected ==
    IsNegative(objectSize) =>
        \/ pcParts = "usageError"
        \/ pcParts = "maxLoop" /\ nPartsMax = partsLimit

----------------------------------------------------------------------------
(***************************************************************************)
(* Properties of findPadding, deleteObjectList and listAllObjects.         *)
(***************************************************************************)

\* C6: for a non-negative offset, findPadding(offset) lies in 0..511 and is
\* the smallest pad that brings the offset to a multiple of 512; it is 0 at
\* offsets 0 and 512, and 511 at offset 1.
C6_PaddingToBlock ==
    pcPad = "returned" =>
        /\ n \in 0..511
        /\ (offset + n) % 512 = 0
        /\ \A m \in 0..(n - 1) : (offset + m) % 512 # 0
        /\ offset = 0 => n = 0
        /\ offset = 512 => n = 0
        /\ offset = 1 => n = 511

\* C6 witness: findPadding has returned 511 for the offset 1.
C6_Witness == pcPad = "returned" /\ offset = 1 /\ n = 511

\* C7: when no batch fails, deleteObjectList has issued ceil(n/1000) calls:
\* consecutive non-empty slices of at most 1000 keys that start at the head
\* of the list and end at its end, each but the last of exactly 1000 keys;
\* none for an empty list.
C7_BatchesOfAThousand ==
    (pcDelete = "returned" /\ delErr.kind = "nil") =>
        /\ Len(calls) = (nObjects + 999) \div 1000
        /\ \A c \in 1..Len(calls) :
               /\ calls[c].start = (IF c = 1 THEN 0 ELSE calls[c - 1].end)
               /\ calls[c].end - calls[c].start \in 1..1000
               /\ c < Len(calls) => calls[c].end - calls[c].start = 1000
        /\ Len(calls) > 0 => calls[Len(calls)].end = nObjects

\* C7 witness: 2500 keys have been deleted in three calls of 1000, 1000 and
\* 500 keys.
C7_Witness ==
    /\ pcDelete = "returned"
    /\ delErr.kind = "nil"
    /\ nObjects = 2500
    /\ calls = << [start |-> 0, end |-> 1000], [start |-> 1000, end |-> 2000],
                  [start |-> 2000, end |-> 2500] >>

\* C8 (as claimed): once the store has answered a batch with per-object
\* failures, or the call has failed, deleteObjectList has returned an error
\* to its caller (one that names the failing keys, for per-object failures);
\* the process is not terminated, and the failing batch is the last issued.
C8_FailureSurfaced ==
    response.kind \in {"errors", "err"} =>
        /\ pcDelete = "returned"
        /\ delErr.kind \notin {"none", "nil"}
        /\ response.kind = "errors" => delErr.keys = response.keys
        /\ i = calls[Len(calls)].start

\* The keys of the returned entries, in order.
ListedKeys == [k \in 1..Len(list) |-> list[k].Key]

KeepsName(name) == name[Len(name)] # "/"

\* C9: listAllObjects returns the listed keys that do not end in "/", in
\* listing order, numbered 1, 2, ..., k after filtering.
C9_PathsFilteredAndNumbered ==
    pcList = "returned" =>
        /\ ListedKeys = SelectSeq(listing, KeepsName)
        /\ \A k \in 1..Len(list) : list[k].PartNum = k

\* C9 witness: a listing whose key ending in "/" sits between two kept keys,
\* one of which begins with "/", has been returned as two numbered entries.
C9_Witness ==
    /\ pcList = "returned"
    /\ listing = << <<"a">>, <<"b", "/">>, <<"/", "e">> >>
    /\ list = << [Key |-> <<"a">>, PartNum |-> 1],
                 [Key |-> <<"/", "e">>, PartNum |-> 2] >>

=============================================================================
